---- MODULE Spec2Model ----
\* Sweep-and-prune overlap detection for axis-aligned 2D boxes (par_sprune.h).
\* The caller owns a flat array of boxes (minx miny maxx maxy); the context
\* borrows it and owns the per-axis event orders, the per-axis flag arrays and
\* the collision pair list.
EXTENDS Integers, Sequences, FiniteSets, TLC

\* ---------------------------------------------------------------------------
\* Bounds of the model
\* ---------------------------------------------------------------------------
\* boxes in an array of SpecAxis
MaxBoxes == 3
\* squares in an array of SpecSort
SortBoxes == 4
\* coordinates are 0..MaxCoord
MaxCoord == 2
\* boxes in the array of Spec, and calls in its chain
ChainLen == 2
MaxCalls == 2
\* boxes in the array of SpecUpdate
FrameLen == 2

\* sizeof(int) and sizeof(bool), the element sizes pa___grow passes on
SizeofInt == 4
SizeofBool == 1

Min2(a, b) == IF a > b THEN b ELSE a
Max2(a, b) == IF a > b THEN a ELSE b

\* ---------------------------------------------------------------------------
\* The growable array (pa_* macros).  An array is its header (m = capacity in
\* elements, n = count), the payload bytes realloc was asked for, and its elements.
\* ---------------------------------------------------------------------------
NullArr == [alloc |-> FALSE, m |-> 0, n |-> 0, bytes |-> 0, data |-> <<>>]

pa_count(a) == IF a.alloc THEN a.n ELSE 0

\* pa_clear as a no-op: the count and the elements of the last call stay
pa_clear_Keep(a) == a

pa_clear(a) == IF a.alloc THEN [a EXCEPT !.n = 0, !.data = <<>>] ELSE a

pa___needgrow(a, n) == (~a.alloc) \/ (a.n + n >= a.m)

\* realloc(raw, sizeof(int) * (itemsize * m / sizeof(int) + 2)): two header ints,
\* then itemsize * m / sizeof(int) payload ints (integer division).
pa___growf(arr, increment, itemsize) ==
    LET dbl_cur == IF arr.alloc THEN 2 * arr.m ELSE 0
        min_needed == pa_count(arr) + increment
        m == IF dbl_cur > min_needed THEN dbl_cur ELSE min_needed
    IN  [alloc |-> TRUE, m |-> m, n |-> IF arr.alloc THEN arr.n ELSE 0,
         bytes |-> SizeofInt * ((itemsize * m) \div SizeofInt),
         data |-> arr.data]

pa___maybegrow(a, n, itemsize) ==
    IF pa___needgrow(a, n) THEN pa___growf(a, n, itemsize) ELSE a

\* pa_add(a, n): grow if needed, then n += count.  The new elements are not
\* initialised; the model holds only the elements written so far in data.
pa_add(a, n, itemsize) ==
    LET g == pa___maybegrow(a, n, itemsize) IN [g EXCEPT !.n = g.n + n]

pa_push(a, v, itemsize) ==
    LET g == pa___maybegrow(a, 1, itemsize)
    IN  [g EXCEPT !.n = g.n + 1, !.data = Append(g.data, v)]

\* ---------------------------------------------------------------------------
\* Comparators
\* ---------------------------------------------------------------------------
\* aabbs[a] for a flat float index a into the caller's array of 4-tuples
AabbAt(aabbs, a) == aabbs[(a \div 4) + 1][(a % 4) + 1]

\* par__cmpinds without the tie-break on the event encoding
par__cmpinds_NoTie(a, b, aabbs) ==
    LET vala == aabbs[(a \div 4) + 1][(a % 4) + 1]
        valb == aabbs[(b \div 4) + 1][(b % 4) + 1]
    IN  IF vala > valb THEN 1 ELSE IF vala < valb THEN -1 ELSE 0

\* par__cmpinds with the tie-break reversed: the larger encoding first
par__cmpinds_TieReversed(a, b, aabbs) ==
    LET vala == aabbs[(a \div 4) + 1][(a % 4) + 1]
        valb == aabbs[(b \div 4) + 1][(b % 4) + 1]
    IN  IF vala > valb THEN 1
        ELSE IF vala < valb THEN -1
        ELSE IF a > b THEN -1
        ELSE IF a < b THEN 1
        ELSE 0

par__cmpinds(a, b, aabbs) ==
    LET vala == AabbAt(aabbs, a)
        valb == AabbAt(aabbs, b)
    IN  IF vala > valb THEN 1
        ELSE IF vala < valb THEN -1
        ELSE IF a > b THEN 1
        ELSE IF a < b THEN -1
        ELSE 0

par__cmppairs(pa, pb) ==
    IF pa[1] > pb[1] THEN 1
    ELSE IF pa[1] < pb[1] THEN -1
    ELSE IF pa[2] > pb[2] THEN 1
    ELSE IF pa[2] < pb[2] THEN -1
    ELSE 0

par__cmpfind(pa, pb) ==
    IF pa[1] > pb[1] THEN 1
    ELSE IF pa[1] < pb[1] THEN -1
    ELSE IF pa[2] > pb[2] THEN 1
    ELSE IF pa[2] < pb[2] THEN -1
    ELSE 0

\* The compar function pointer with its arg: par__cmpinds reads arg as the
\* sorter holding aabbs, par__cmppairs ignores it.
Compar(fn, a, b, arg) ==
    IF fn = "par__cmpinds" THEN par__cmpinds(a, b, arg) ELSE par__cmppairs(a, b)

\* ---------------------------------------------------------------------------
\* par_qsort over a sequence of elements (element i is bytes [w*i, w*i + w))
\* ---------------------------------------------------------------------------
Swap(s, i, j) == [s EXCEPT ![i] = s[j], ![j] = s[i]]

\* Swaps elements i and j when compar(i, j) > 0; the pair <<array, swapped>>
par_qsort_cmpswap(s, i, j, fn, arg) ==
    IF Compar(fn, s[i], s[j], arg) > 0 THEN <<Swap(s, i, j), 1>> ELSE <<s, 0>>

\* Inner loop of the insertion sort: element at pj sinks while larger than it
RECURSIVE InsertDown(_, _, _, _)
InsertDown(s, pj, fn, arg) ==
    IF pj > 1
    THEN LET r == par_qsort_cmpswap(s, pj - 1, pj, fn, arg)
         IN  IF r[2] = 1 THEN InsertDown(r[1], pj - 1, fn, arg) ELSE s
    ELSE s

RECURSIVE InsertionSort(_, _, _, _)
InsertionSort(s, pi, fn, arg) ==
    IF pi <= Len(s)
    THEN InsertionSort(InsertDown(s, pi, fn, arg), pi + 1, fn, arg)
    ELSE s

\* Positions of the three candidates with the median's position in l[2]
MedianOfThree(s, fn, arg) ==
    LET nel == Len(s)
        l0 == <<1, (nel \div 2) + 1, nel>>
        l1 == IF Compar(fn, s[l0[1]], s[l0[2]], arg) > 0
              THEN <<l0[2], l0[1], l0[3]>> ELSE l0
        l2 == IF Compar(fn, s[l1[2]], s[l1[3]], arg) > 0
              THEN LET t == <<l1[1], l1[3], l1[2]>>
                   IN  IF Compar(fn, s[t[1]], s[t[2]], arg) > 0
                       THEN <<t[2], t[1], t[3]>> ELSE t
              ELSE l1
    IN  l2

\* The while (pl < pr) loop: phase 1 is the first for loop (advancing pl),
\* phase 2 the second (retreating pr); the pair <<array, pl>> at exit
RECURSIVE Partition(_, _, _, _, _, _)
\* The second for loop without its break: after a swap pl advances and the
\* loop goes on retreating pr
Partition_NoBreak(s, pl, pr, phase, fn, arg) ==
    IF pl >= pr THEN <<s, pl>>
    ELSE LET r == par_qsort_cmpswap(s, pl, pr, fn, arg)
         IN  IF phase = 1
             THEN IF r[2] = 1 THEN Partition(r[1], pl, pr - 1, 2, fn, arg)
                  ELSE Partition(s, pl + 1, pr, 1, fn, arg)
             ELSE IF r[2] = 1 THEN Partition(r[1], pl + 1, pr - 1, 2, fn, arg)
                  ELSE Partition(s, pl, pr - 1, 2, fn, arg)

Partition(s, pl, pr, phase, fn, arg) ==
    IF pl >= pr THEN <<s, pl>>
    ELSE LET r == par_qsort_cmpswap(s, pl, pr, fn, arg)
         IN  IF phase = 1
             THEN IF r[2] = 1 THEN Partition(r[1], pl, pr - 1, 2, fn, arg)
                  ELSE Partition(s, pl + 1, pr, 1, fn, arg)
             ELSE IF r[2] = 1 THEN Partition(r[1], pl + 1, pr, 1, fn, arg)
                  ELSE Partition(s, pl, pr - 1, 2, fn, arg)

RECURSIVE par_qsort(_, _, _)
par_qsort(s, fn, arg) ==
    LET nel == Len(s) IN
    IF nel < 7 THEN InsertionSort(s, 2, fn, arg)
    ELSE LET l == MedianOfThree(s, fn, arg)
             piv == Swap(s, l[2], nel)
             p == Partition(piv, 1, nel, 1, fn, arg)
             t == p[1]
             pl == p[2]
         IN  par_qsort(SubSeq(t, 1, pl - 1), fn, arg)
             \o <<t[pl]>>
             \o par_qsort(SubSeq(t, pl + 1, nel), fn, arg)

\* bsearch(key, base, nel, width, par__cmpfind) over elements lo..hi of base
RECURSIVE bsearch(_, _, _, _)
bsearch(key, base, lo, hi) ==
    IF lo > hi THEN FALSE
    ELSE LET mid == (lo + hi) \div 2
             c == par__cmpfind(key, base[mid])
         IN  IF c = 0 THEN TRUE
             ELSE IF c < 0 THEN bsearch(key, base, lo, mid - 1)
             ELSE bsearch(key, base, mid + 1, hi)

\* ---------------------------------------------------------------------------
\* The sweep over one axis's sorted events
\* ---------------------------------------------------------------------------
\* Largest position of val in arr, 0 when absent (the downward scan of
\* par_sprune__remove; C's i is this minus one)
RECURSIVE ScanDown(_, _, _)
ScanDown(arr, val, i) ==
    IF i = 0 THEN 0
    ELSE IF arr[i] = val THEN i
    ELSE ScanDown(arr, val, i - 1)

\* par_sprune__remove: found is the asserted condition i >= 0; the swaps move
\* the element to the end, and the count drops by one
par_sprune__remove(arr, val) ==
    LET i == ScanDown(arr, val, Len(arr))
    IN  [found |-> i > 0,
         arr |-> IF i > 0
                 THEN SubSeq(arr, 1, i - 1) \o SubSeq(arr, i + 1, Len(arr))
                 ELSE arr]

Occurrences(arr, val) == Cardinality({k \in 1..Len(arr) : arr[k] = val})

\* bool ismin = ((fltindex - axis) % 4) == 0
IsMin(fltindex, axis) == ((fltindex - axis) % 4) = 0

\* The event loop pushing (active[j], boxindex) as they come, without
\* PAR_MIN and PAR_MAX
SweepEvent_NoCanon(st, fltindex, axis) ==
    LET boxindex == fltindex \div 4 IN
    IF ~st.ok THEN st
    ELSE IF IsMin(fltindex, axis)
    THEN [st EXCEPT
            !.pairs = st.pairs \o
                [j \in 1..Len(st.active) |-> <<st.active[j], boxindex>>],
            !.active = Append(st.active, boxindex)]
    ELSE LET r == par_sprune__remove(st.active, boxindex)
         IN  [st EXCEPT !.ok = r.found,
                        !.active = r.arr,
                        !.log = Append(st.log, Occurrences(st.active, boxindex))]

\* One iteration of the event loop.  st.ok turns FALSE when the assert of
\* par_sprune__remove fails (the program aborts there); st.log keeps, for every
\* max event, how often its box was in the active set when it was processed.
SweepEvent(st, fltindex, axis) ==
    LET boxindex == fltindex \div 4 IN
    IF ~st.ok THEN st
    ELSE IF IsMin(fltindex, axis)
    THEN [st EXCEPT
            !.pairs = st.pairs \o
                [j \in 1..Len(st.active) |->
                    <<Min2(st.active[j], boxindex), Max2(st.active[j], boxindex)>>],
            !.active = Append(st.active, boxindex)]
    ELSE LET r == par_sprune__remove(st.active, boxindex)
         IN  [st EXCEPT !.ok = r.found,
                        !.active = r.arr,
                        !.log = Append(st.log, Occurrences(st.active, boxindex))]

RECURSIVE SweepFrom(_, _, _, _)
SweepFrom(st, indices, i, axis) ==
    IF i > Len(indices) THEN st
    ELSE SweepFrom(SweepEvent(st, indices[i], axis), indices, i + 1, axis)

\* pa_clear(active), then the loop over the 2 * naabbs events of the axis
Sweep(indices, axis) ==
    SweepFrom([ok |-> TRUE, active |-> <<>>, pairs |-> <<>>, log |-> <<>>],
              indices, 1, axis)

\* ---------------------------------------------------------------------------
\* The context and par_sprune_overlap
\* ---------------------------------------------------------------------------
\* calloc'ed par_sprune__context: every pointer null, every count zero
NullCtx ==
    [alloc |-> FALSE,
     collision_pairs |-> NullArr, ncollision_pairs |-> 0,
     culled |-> <<>>, nculled |-> 0,
     naabbs |-> 0,
     sorted_indices |-> <<NullArr, NullArr>>,
     overlap_flags |-> <<NullArr, NullArr>>]

\* Lines 300-305 for one array: pa_clear, then pa_add of naabbs * 2 elements
ClearAdd(arr, naabbs, itemsize) == pa_add(pa_clear(arr), naabbs * 2, itemsize)

\* Lines 306-313: the events of every box in the array's natural order.
\* Element i*2 is the min event i*4 + axis, element i*2 + 1 the max event.
Populate(naabbs, axis) ==
    [k \in 1..(2 * naabbs) |-> ((k - 1) \div 2) * 4 + axis + 2 * ((k - 1) % 2)]

\* overlap_flags[axis][i] = false for i < naabbs
ClearFlags(naabbs) == [i \in 1..naabbs |-> FALSE]

\* nel < 7 for nel = (size_t) count: a negative count converts to a value near
\* SIZE_MAX, so the test holds only for 0 <= count < 7
NelLt7(count) == count >= 0 /\ count < 7

\* Every element written lies inside the payload realloc was asked for
Fits(arr, itemsize) == itemsize * Len(arr.data) <= arr.bytes

\* Lines 346-356: the pairs of p0 that bsearch finds in p1, pushed flat
RECURSIVE Intersect(_, _, _, _)
Intersect(out, p0, p1, i) ==
    IF i > Len(p0) THEN out
    ELSE Intersect(
            IF bsearch(p0[i], p1, 1, Len(p1))
            THEN pa_push(pa_push(out, p0[i][1], SizeofInt), p0[i][2], SizeofInt)
            ELSE out,
            p0, p1, i + 1)

\* Lines 300-313: both axes' event arrays and flag arrays, cleared, resized
\* and filled in the array's natural order
OverlapIndices(previous, naabbs) ==
    [a \in 1..2 |->
        [ClearAdd(previous.sorted_indices[a], naabbs, SizeofInt)
            EXCEPT !.data = Populate(naabbs, a - 1)]]

OverlapFlags(previous, naabbs) ==
    [a \in 1..2 |->
        [ClearAdd(previous.overlap_flags[a], naabbs, SizeofBool)
            EXCEPT !.data = ClearFlags(naabbs)]]

\* Line 321 for both axes
SortIndices(boxes, si) ==
    [a \in 1..2 |-> [si[a] EXCEPT !.data = par_qsort(si[a].data, "par__cmpinds", boxes)]]

Aborted == [ok |-> FALSE, active |-> <<>>, pairs |-> <<>>, log |-> <<>>]

\* Lines 319-339: axis 1 is swept only when the sweep of axis 0 did not abort
SweepSecond(sw0, si) == <<sw0, IF sw0.ok THEN Sweep(si[2].data, 1) ELSE Aborted>>
SweepAxes(si) == SweepSecond(Sweep(si[1].data, 0), si)

\* Lines 342-345
SortPairs(pairs) == par_qsort(pairs, "par__cmppairs", 0)

\* pairs[0] walked in the order the sweep pushed it, only pairs[1] sorted for
\* the binary search
CollisionPairs_Unsorted(previous, sw) ==
    Intersect(pa_clear(previous.collision_pairs),
              sw[1].pairs, par_qsort(sw[2].pairs, "par__cmppairs", 0), 1)

\* Lines 342-356
CollisionPairs(previous, sw) ==
    Intersect(pa_clear(previous.collision_pairs),
              SortPairs(sw[1].pairs), SortPairs(sw[2].pairs), 1)

\* What the call leaves.  ctx is the context, assert_ok whether every assert
\* passed, oob whether a write of lines 306-313 fell outside its array, wild
\* whether par_qsort was entered with a count that is not the array's,
\* qsort_calls how many of the four par_qsort calls were reached.
OverlapResult(previous, naabbs, si, fl, sw, cp) ==
    [ctx |-> [previous EXCEPT
                !.alloc = TRUE,
                !.naabbs = naabbs,
                !.sorted_indices = si,
                !.overlap_flags = fl,
                !.collision_pairs = cp,
                !.ncollision_pairs = pa_count(cp) \div 2],
     assert_ok |-> sw[1].ok /\ sw[2].ok,
     oob |-> \E a \in 1..2 : ~Fits(si[a], SizeofInt) \/ ~Fits(fl[a], SizeofBool),
     wild |-> naabbs < 0 /\ ~NelLt7(naabbs * 2),
     qsort_calls |-> IF sw[2].ok THEN 4 ELSE IF sw[1].ok THEN 2 ELSE 1,
     log |-> <<sw[1].log, sw[2].log>>,
     active_end |-> <<sw[1].active, sw[2].active>>]

OverlapSwept(previous, naabbs, si, sw) ==
    OverlapResult(previous, naabbs, si, OverlapFlags(previous, naabbs), sw,
                  CollisionPairs(previous, sw))

OverlapSorted(previous, naabbs, si) ==
    OverlapSwept(previous, naabbs, si, SweepAxes(si))

\* The whole call
par_sprune_overlap(boxes, naabbs, previous) ==
    OverlapSorted(previous, naabbs,
                  SortIndices(boxes, OverlapIndices(previous, naabbs)))

\* How the call can end: "assert" when the assert of par_sprune__remove fails,
\* "ok" when it returns.  A write outside an array, or a sort let loose outside
\* it, is undefined behaviour: the write may land in the allocator's slack and
\* the call go on, or the process may die ("crash").
Outcomes(r) ==
    (IF r.oob \/ r.wild THEN {"crash"} ELSE {})
        \cup {IF r.assert_ok THEN "ok" ELSE "assert"}

\* ---------------------------------------------------------------------------
\* par_sprune_update and par_sprune_cull: declared in the header, their
\* bodies are not part of the file; modelled from their documented behaviour
\* ---------------------------------------------------------------------------
\* The pairs of a flat list of two-tuples
PairsOf(flat) == [k \in 1..(Len(flat) \div 2) |-> <<flat[2 * k - 1], flat[2 * k]>>]
PairSet(flat) == {PairsOf(flat)[k] : k \in 1..(Len(flat) \div 2)}

UpdateResult(c, new, sw, cp) ==
    [ctx |-> [c EXCEPT
                !.sorted_indices = new,
                !.collision_pairs = cp,
                !.ncollision_pairs = pa_count(cp) \div 2],
     changed |-> cp.data # c.collision_pairs.data,
     assert_ok |-> sw[1].ok /\ sw[2].ok]

UpdateSwept(c, new, sw) == UpdateResult(c, new, sw, CollisionPairs(c, sw))

\* No element moved on either axis: nothing else is done
UpdateSorted(c, new) ==
    IF \A a \in 1..2 : new[a].data = c.sorted_indices[a].data
    THEN [ctx |-> c, changed |-> FALSE, assert_ok |-> TRUE]
    ELSE UpdateSwept(c, new, SweepAxes(new))

\* The insertion pass over each axis's previous order
ResortIndices(boxes, si) ==
    [a \in 1..2 |->
        [si[a] EXCEPT !.data = InsertionSort(si[a].data, 2, "par__cmpinds", boxes)]]

\* Re-sorts each axis's event order from its previous order with an insertion
\* pass over the updated coordinates; when no element moved on either axis it
\* reports "unchanged" and does nothing, otherwise it sweeps again, intersects
\* again and reports whether the collision list differs from the previous one.
par_sprune_update(boxes, c) == UpdateSorted(c, ResortIndices(boxes, c.sorted_indices))

\* Edges touching box v, and the boxes that appear in some edge
Incident(edges, v) == {e \in edges : e[1] = v \/ e[2] = v}
Vertices(edges) == UNION {{e[1], e[2]} : e \in edges}

\* The connected component of v: grow the set along the edges until it is stable
RECURSIVE Reach(_, _)
Reach(edges, set) ==
    LET more == set \cup UNION {{e[1], e[2]} : e \in {f \in edges : f[1] \in set \/ f[2] \in set}}
    IN  IF more = set THEN set ELSE Reach(edges, more)

SetMin(S) == CHOOSE x \in S : \A y \in S : x <= y

\* The greedy pass stopping after its first pick
GreedyCover_Once(edges, out) ==
    IF edges = {} THEN out
    ELSE LET V == UNION {{e[1], e[2]} : e \in edges}
             deg(v) == Cardinality({e \in edges : e[1] = v \/ e[2] = v})
         IN  Append(out, CHOOSE x \in {v \in V : \A u \in V : deg(u) <= deg(v)} :
                            \A y \in {v \in V : \A u \in V : deg(u) <= deg(v)} : x <= y)

\* Within one component: the box of highest remaining degree, the smaller id on
\* a tie, is culled and its edges removed, until no edge is left
RECURSIVE GreedyCover(_, _)
GreedyCover(edges, out) ==
    IF edges = {} THEN out
    ELSE LET V == Vertices(edges)
             deg(v) == Cardinality(Incident(edges, v))
             best == SetMin({v \in V : \A u \in V : deg(u) <= deg(v)})
         IN  GreedyCover(edges \ Incident(edges, best), Append(out, best))

\* Component after component, in the order of their smallest box id
RECURSIVE CullComponents(_, _)
CullComponents(edges, out) ==
    IF edges = {} THEN out
    ELSE LET comp == Reach(edges, {SetMin(Vertices(edges))})
             mine == {e \in edges : e[1] \in comp}
         IN  CullComponents(edges \ mine, GreedyCover(mine, out))

par_sprune_cull(c) ==
    LET culled == CullComponents(PairSet(c.collision_pairs.data), <<>>)
    IN  [c EXCEPT !.culled = culled, !.nculled = Len(culled)]

\* ---------------------------------------------------------------------------
\* Input families
\* ---------------------------------------------------------------------------
Coords == 0..MaxCoord

\* (min, max) of one axis; min > max is not a box
Intervals == {iv \in Coords \X Coords : iv[1] <= iv[2]}
BadIntervals == (Coords \X Coords) \ Intervals

\* A box is <<minx, miny, maxx, maxy>>
WellFormedBox(b) == b[1] <= b[3] /\ b[2] <= b[4]
WellFormed(boxes, n) == \A i \in 1..n : WellFormedBox(boxes[i])

Mirror(iv) == <<MaxCoord - iv[2], MaxCoord - iv[1]>>
MakeBox(x, y) == <<x[1], y[1], x[2], y[2]>>

\* Squares on the diagonal: the y interval is the x interval
Squares == {MakeBox(iv, iv) : iv \in Intervals}
\* and boxes whose y interval is the x interval mirrored in the coordinate
\* range, so that two boxes can overlap on one axis and not on the other
Boxes == Squares \cup {MakeBox(iv, Mirror(iv)) : iv \in Intervals}
\* Not boxes: max below min on both axes, or on the y axis alone
BadBoxes == {MakeBox(iv, iv) : iv \in BadIntervals}
            \cup {MakeBox(<<iv[2], iv[1]>>, iv) : iv \in BadIntervals}

ArraysUpTo(S, n) == UNION {[1..k -> S] : k \in 0..n}

VARIABLES
    aabbs,      \* the caller's box array
    ctx,        \* the par_sprune__context, NullCtx before the first call
    outcome,    \* how the last call ended: "none", "ok", "assert", "crash"
    call,       \* the last operation: its name, arguments and what it went through
    ncalls      \* par_sprune_overlap calls made so far

vars == <<aabbs, ctx, outcome, call, ncalls>>

NoCall == [op |-> "none", naabbs |-> 0, reused |-> FALSE, prev_naabbs |-> 0,
           qsort_calls |-> 0,
           log |-> <<<<>>, <<>>>>, active_end |-> <<<<>>, <<>>>>,
           changed |-> FALSE, before |-> <<>>]

\* par_sprune_overlap(aabbs, naabbs, ctx): the context is passed back in,
\* NULL the first time.  r is what the call leaves.
OverlapEnds(naabbs, r) ==
    /\ outcome' \in Outcomes(r)
    /\ ctx' = IF outcome' = "ok" THEN r.ctx ELSE ctx
    /\ call' = [NoCall EXCEPT
                   !.op = "overlap", !.naabbs = naabbs,
                   !.reused = ctx.alloc, !.prev_naabbs = ctx.naabbs,
                   !.before = ctx.collision_pairs.data,
                   \* a process that died at the stray write reached no sort,
                   \* one that died in the stray sort reached the first
                   !.qsort_calls = IF outcome' # "crash" THEN r.qsort_calls
                                   ELSE IF r.oob THEN 0 ELSE 1,
                   !.log = IF outcome' # "crash" THEN r.log ELSE NoCall.log,
                   !.active_end = IF outcome' # "crash" THEN r.active_end
                                  ELSE NoCall.active_end]

Overlap(naabbs) ==
    /\ outcome \in {"none", "ok"}
    /\ naabbs <= Len(aabbs)
    /\ OverlapEnds(naabbs, par_sprune_overlap(aabbs, naabbs, ctx))
    /\ ncalls' = ncalls + 1
    /\ UNCHANGED aabbs

\* par_sprune_free_context(ctx); the caller keeps no pointer to it
Free ==
    /\ outcome = "ok"
    /\ ctx.alloc
    /\ ctx' = NullCtx
    /\ call' = [NoCall EXCEPT !.op = "free"]
    /\ UNCHANGED <<aabbs, outcome, ncalls>>

\* The caller rewrites box i in place
Mutate(i, box) ==
    /\ outcome = "ok"
    /\ call.op \in {"overlap", "update"}
    /\ i \in 1..ctx.naabbs
    /\ aabbs[i] # box
    /\ aabbs' = [aabbs EXCEPT ![i] = box]
    /\ call' = [NoCall EXCEPT !.op = "mutate", !.naabbs = ctx.naabbs]
    /\ UNCHANGED <<ctx, outcome, ncalls>>

\* par_sprune_update(ctx) on the array that was mutated in place
UpdateEnds(r) ==
    /\ outcome' = IF r.assert_ok THEN "ok" ELSE "assert"
    /\ ctx' = IF r.assert_ok THEN r.ctx ELSE ctx
    /\ call' = [NoCall EXCEPT !.op = "update", !.naabbs = ctx.naabbs,
                   !.changed = r.changed,
                   !.before = ctx.collision_pairs.data]

Update ==
    /\ outcome = "ok"
    /\ call.op = "mutate"
    /\ UpdateEnds(par_sprune_update(aabbs, ctx))
    /\ UNCHANGED <<aabbs, ncalls>>

\* par_sprune_cull(ctx)
Cull ==
    /\ outcome = "ok"
    /\ call.op = "overlap"
    /\ ctx' = par_sprune_cull(ctx)
    /\ call' = [NoCall EXCEPT !.op = "cull", !.naabbs = ctx.naabbs]
    /\ UNCHANGED <<aabbs, outcome, ncalls>>

\* ---- SpecAxis: one fresh call on an array of up to MaxBoxes boxes, then cull
InitAxis ==
    /\ aabbs \in ArraysUpTo(Boxes, MaxBoxes)
    /\ ctx = NullCtx
    /\ outcome = "none"
    /\ call = NoCall
    /\ ncalls = 0

OverlapFresh == ~ctx.alloc /\ Overlap(Len(aabbs))

NextAxis == OverlapFresh \/ Cull

SpecAxis == InitAxis /\ [][NextAxis]_vars

\* ---- SpecSort: one fresh call on an array of up to SortBoxes squares
InitSort ==
    /\ aabbs \in ArraysUpTo(Squares, SortBoxes)
    /\ ctx = NullCtx
    /\ outcome = "none"
    /\ call = NoCall
    /\ ncalls = 0

NextSort == OverlapFresh

SpecSort == InitSort /\ [][NextSort]_vars

\* ---- Spec: a chain of at most MaxCalls calls on one array, with any count
\* from -1 to the array's length, each passing the context of the one before
\* unless the caller freed it
Init ==
    /\ aabbs \in [1..ChainLen -> Squares \cup BadBoxes]
    /\ ctx = NullCtx
    /\ outcome = "none"
    /\ call = NoCall
    /\ ncalls = 0

OverlapChain == \E n \in -1..ChainLen : ncalls < MaxCalls /\ Overlap(n)

Next == OverlapChain \/ Free

Spec == Init /\ [][Next]_vars

\* ---- SpecUpdate: a first call on FrameLen boxes, then frames: the caller
\* rewrites one box in place and calls par_sprune_update
InitUpdate ==
    /\ aabbs \in [1..FrameLen -> Boxes]
    /\ ctx = NullCtx
    /\ outcome = "none"
    /\ call = NoCall
    /\ ncalls = 0

MutateFrame == \E i \in 1..FrameLen, box \in Boxes : Mutate(i, box)

NextUpdate == OverlapFresh \/ MutateFrame \/ Update

SpecUpdate == InitUpdate /\ [][NextUpdate]_vars

\* ---------------------------------------------------------------------------
\* The claims
\* ---------------------------------------------------------------------------
\* The last operation was a par_sprune_overlap call and it returned
Returned == call.op = "overlap" /\ outcome = "ok"

\* The collision pairs of the context, as two-tuples in list order
Collisions == PairsOf(ctx.collision_pairs.data)

Range(f) == {f[k] : k \in DOMAIN f}

\* Closed intervals meeting on both axes
ClosedOverlap(p, q) ==
    /\ p[1] <= q[3] /\ q[1] <= p[3]
    /\ p[2] <= q[4] /\ q[2] <= p[4]

\* C1: after par_sprune_overlap a pair (a,b) with a < b is in collision_pairs
\* if and only if boxes a and b overlap on both axes as closed intervals, so
\* boxes that only touch are reported whichever has the smaller id.
C1_ClosedIntervalOverlap ==
    Returned =>
        \A a \in 0..(call.naabbs - 1), b \in 0..(call.naabbs - 1) :
            a < b =>
                (<<a, b>> \in Range(Collisions)
                    <=> ClosedOverlap(aabbs[a + 1], aabbs[b + 1]))

\* C2: after any par_sprune_overlap call every two-tuple of collision_pairs
\* has first < second, and no two-tuple appears twice.
C2_CanonicalPairs ==
    (ctx.alloc /\ outcome = "ok") =>
        /\ \A k \in DOMAIN Collisions : Collisions[k][1] < Collisions[k][2]
        /\ \A j, k \in DOMAIN Collisions : j # k => Collisions[j] # Collisions[k]

\* A call returned two or more collision pairs, and two boxes overlapping on x
\* were dropped for not overlapping on y
C2_Witness ==
    /\ Returned
    /\ ctx.ncollision_pairs >= 2
    /\ \E a, b \in 1..call.naabbs :
         /\ a < b
         /\ aabbs[a][1] < aabbs[b][3] /\ aabbs[b][1] < aabbs[a][3]
         /\ <<a - 1, b - 1>> \notin Range(Collisions)

\* C3: whatever calls came before on the context passed in, a returning
\* par_sprune_overlap leaves the collision_pairs and ncollision_pairs of a call
\* with previous = NULL on the same array and count, and ncollision_pairs is
\* half the length of collision_pairs.
C3_ReuseEqualsFresh ==
    Returned =>
        /\ ctx.collision_pairs.data =
              par_sprune_overlap(aabbs, call.naabbs, NullCtx).ctx.collision_pairs.data
        /\ ctx.ncollision_pairs =
              par_sprune_overlap(aabbs, call.naabbs, NullCtx).ctx.ncollision_pairs
        /\ 2 * ctx.ncollision_pairs = Len(ctx.collision_pairs.data)
        /\ pa_count(ctx.collision_pairs) = Len(ctx.collision_pairs.data)

\* A call on a reused context, with a larger count than the call before,
\* returned collision pairs
C3_Witness ==
    /\ Returned
    /\ call.reused
    /\ call.prev_naabbs >= 0
    /\ call.prev_naabbs < call.naabbs
    /\ ctx.ncollision_pairs >= 1

\* C4: par_sprune_overlap called with count < 0 fails with InvalidCount: it
\* ends in an error outcome without running the sort or the sweep and leaves
\* no collision result.
C4_NegativeCountRejected ==
    (call.op = "overlap" /\ call.naabbs < 0) =>
        /\ outcome = "InvalidCount"
        /\ call.qsort_calls = 0

\* C5: after par_sprune_cull every collision pair has at least one of its two
\* boxes in the culled set.
C5_CullCoversPairs ==
    call.op = "cull" =>
        /\ ctx.nculled = Len(ctx.culled)
        /\ \A k \in DOMAIN Collisions :
              Collisions[k][1] \in Range(ctx.culled) \/ Collisions[k][2] \in Range(ctx.culled)

\* Cull ran on a collision set that one box does not cover
C5_Witness ==
    /\ call.op = "cull"
    /\ ctx.ncollision_pairs >= 2
    /\ ctx.nculled >= 2

C7_PairsAscending ==
    (ctx.alloc /\ outcome = "ok") =>
        \A k \in 1..(Len(Collisions) - 1) :
            \/ Collisions[k][1] < Collisions[k + 1][1]
            \/ /\ Collisions[k][1] = Collisions[k + 1][1]
               /\ Collisions[k][2] < Collisions[k + 1][2]

\* A call returned three or more pairs although a box with a larger id starts
\* left of a box with a smaller id, so the sweep met the pairs out of key order
C7_Witness ==
    /\ Returned
    /\ ctx.ncollision_pairs >= 3
    /\ \E a, b \in 1..call.naabbs : a < b /\ aabbs[b][1] < aabbs[a][1]

\* C8: on an array whose boxes all have min <= max on both axes, degenerate
\* boxes included, whenever a sweep processes a max event its box is in the
\* active set exactly once (the assert of par_sprune__remove never fails), and
\* the active set is empty when each axis's sweep ends.
C8_MaxFindsBoxActive ==
    (call.op = "overlap" /\ call.naabbs >= 0 /\ WellFormed(aabbs, call.naabbs)) =>
        /\ outcome # "assert"
        /\ outcome = "ok" =>
              /\ call.qsort_calls = 4
              /\ \A a \in 1..2 :
                    /\ Len(call.log[a]) = call.naabbs
                    /\ \A k \in DOMAIN call.log[a] : call.log[a][k] = 1
                    /\ call.active_end[a] = <<>>

\* A call returned on two or more boxes, one of them degenerate on both axes
\* and sharing its coordinate with an end of another box
C8_Witness ==
    /\ Returned
    /\ call.naabbs >= 2
    /\ \E i, j \in 1..call.naabbs :
         /\ i # j
         /\ aabbs[i][1] = aabbs[i][3]
         /\ aabbs[i][2] = aabbs[i][4]
         /\ aabbs[j][3] = aabbs[i][1]

\* (coordinate, encoding) of event e, and the order the events are sorted in
EventValue(e) == aabbs[(e \div 4) + 1][(e % 4) + 1]
EventBefore(d, e) ==
    EventValue(d) < EventValue(e) \/ (EventValue(d) = EventValue(e) /\ d < e)
AxisEvents(n, axis) == {i * 4 + axis + off : i \in 0..(n - 1), off \in {0, 2}}

\* C9: after par_sprune_overlap, sorted_indices[axis] is a permutation of
\* exactly the 2n event encodings of the axis, ascending by the coordinate the
\* event refers to, ties broken by ascending encoding, for every n, those with
\* 2n >= 7 events included.
C9_EventsSorted ==
    Returned =>
        \A a \in 1..2 :
            /\ Len(ctx.sorted_indices[a].data) = 2 * call.naabbs
            /\ pa_count(ctx.sorted_indices[a]) = 2 * call.naabbs
            /\ Range(ctx.sorted_indices[a].data) = AxisEvents(call.naabbs, a - 1)
            /\ \A k \in 1..(2 * call.naabbs - 1) :
                  EventBefore(ctx.sorted_indices[a].data[k],
                              ctx.sorted_indices[a].data[k + 1])

\* A call sorted seven or more events per axis that were not in order already
C9_Witness ==
    /\ Returned
    /\ 2 * call.naabbs >= 7
    /\ ctx.sorted_indices[1].data # Populate(call.naabbs, 0)
    /\ ctx.sorted_indices[2].data # Populate(call.naabbs, 1)

\* C10: every element par_sprune_overlap writes into sorted_indices[axis] and
\* overlap_flags[axis] lies inside the payload pa___growf allocated for it.
C10_WritesInsideArrays ==
    ctx.alloc =>
        \A a \in 1..2 :
            /\ Fits(ctx.sorted_indices[a], SizeofInt)
            /\ Fits(ctx.overlap_flags[a], SizeofBool)
====
